---------------------------- MODULE Spec2Model ----------------------------
(***************************************************************************)
(* Model of the IMU multiplexer scripts:                                   *)
(*   src/i2cdetect.py  IMUMultiplexer and its main() (specification Spec)  *)
(*   src/MXtest.py     IMUTester                                           *)
(*   src/NewTest.py    MPU9250_Simple and the adapter-library driver       *)
(*                                                                         *)
(* The I2C bus is the environment: every bus operation either is           *)
(* acknowledged or raises (OSError), and a read returns a value drawn from *)
(* a small set.  An action models one bus operation together with the      *)
(* Python control flow that follows it (exception handlers, loop advance), *)
(* or the entry or exit of a loop.                                         *)
(***************************************************************************)
EXTENDS Integers, Sequences, FiniteSets, TLC

VARIABLES
    pc,               \* position of the running script
    bus_idx,          \* main(): index into buses_to_try
    opened,           \* bus numbers whose SMBus handle is open (not closed)
    multiplexer,      \* main(): bus number of the IMUMultiplexer, 0 for None
    ctrl,             \* control byte latched by the TCA9548A (last acknowledged write)
    pos,              \* 1-based position of the running "for channel in ..." loop
    addr_idx,         \* loop position of "for address in [0x68, 0x69]"
    devices_found,    \* scan_all_channels(): local list of the current channel
    imus,             \* self.imus, a dict kept in insertion order
    imus_initialized, \* self.imus_initialized
    data,             \* read_all_imus(): the dict being built, in insertion order
    count,            \* main(): number of completed readings
    log,              \* bus operations issued so far in the current pass: one
                      \* channel of the scan or of the discovery, one reading
    locked,           \* NewTest.py: channels whose lock is held
    sel,              \* the last direct call of _tca_select and its outcome
    conv,             \* the values of a direct call of the converters
    step,             \* MXtest.py main(): the step that is running
    scan_results,     \* MXtest.py main(): scan_results, in insertion order
    detailed_results  \* MXtest.py main(): detailed_results, in insertion order

vars == <<pc, bus_idx, opened, multiplexer, ctrl, pos, addr_idx,
          devices_found, imus, imus_initialized, data, count, log,
          locked, sel, conv, step, scan_results, detailed_results>>

(* The variables of src/MXtest.py's main().                                *)
mx == <<step, scan_results, detailed_results>>

(* Variables that src/i2cdetect.py's main() never touches.                 *)
others == <<locked, sel, conv, mx>>

-----------------------------------------------------------------------------
(* Program constants (decimal; the source writes them in hexadecimal).     *)

MuxAddr      == 112     \* 0x70
PWR_MGMT_1   == 107     \* 0x6B
WHO_AM_I     == 117     \* 0x75
ACCEL_XOUT_H == 59      \* 0x3B
BlockLen     == 14
WHO_MPU9250  == 113     \* 0x71
WHO_MPU9255  == 115     \* 0x73
ADDR_LOW     == 104     \* 0x68
ADDR_HIGH    == 105     \* 0x69
NumChannels  == 8

buses_to_try   == <<1, 7, 8>>
imu_channels   == <<2, 3, 4>>
scan_addresses == <<ADDR_LOW, ADDR_HIGH>>   \* "for address in [0x68, 0x69]"
known_ids      == {WHO_MPU9250, WHO_MPU9255}

(* Bounds of the model.                                                    *)
MaxCycles == 2          \* readings of the continuous loop that are explored
MaxWrites == 2          \* bus writes explored by the direct calls of _tca_select

(* Values the environment may return.  An operation that raises has        *)
(* ok = FALSE and its value is ignored.                                    *)
WhoVals     == {0, WHO_MPU9250, WHO_MPU9255}
WhoOutcomes == {[ok |-> FALSE, val |-> 0]} \cup {[ok |-> TRUE, val |-> v] : v \in WhoVals}
Fixture     == <<16, 0, 0, 0, 240, 0, 1, 0, 0, 0, 0, 0, 0, 0>>
AllOnes     == [i \in 1..BlockLen |-> 255]
Blocks      == {Fixture, AllOnes}
BlockOutcomes == {[ok |-> FALSE, blk |-> <<>>]} \cup {[ok |-> TRUE, blk |-> b] : b \in Blocks}

-----------------------------------------------------------------------------
(* Bus operations as log entries.  ch is the channel the script is working *)
(* on when it issues the operation.                                        *)

MuxWrite(byte, ack, ch) ==
    [op |-> "write_byte", addr |-> MuxAddr, reg |-> 0, val |-> byte,
     ok |-> ack, ch |-> ch]
WakeWrite(address, ack, ch) ==
    [op |-> "write_byte_data", addr |-> address, reg |-> PWR_MGMT_1, val |-> 0,
     ok |-> ack, ch |-> ch]
WhoRead(address, res, ch) ==
    [op |-> "read_byte_data", addr |-> address, reg |-> WHO_AM_I,
     val |-> IF res.ok THEN res.val ELSE 0, ok |-> res.ok, ch |-> ch]
BlockRead(address, res, ch) ==
    [op |-> "read_i2c_block_data", addr |-> address, reg |-> ACCEL_XOUT_H,
     val |-> BlockLen, ok |-> res.ok, ch |-> ch]

IsMuxWrite(e)  == e.op = "write_byte" /\ e.addr = MuxAddr
IsSensorOp(e)  == e.op # "write_byte"

-----------------------------------------------------------------------------
(* IMUMultiplexer._tca_select: the error it raises, if any, and the bus    *)
(* writes it issues.  1 << channel is 2^channel.                           *)

(* Faulty variants of _tca_select, used to show that the properties below  *)
(* depend on it: the shift forgotten, the range check off by one, a mask   *)
(* that keeps the lower channels switched on, and a write whose fault is   *)
(* swallowed.                                                              *)
_tca_select_unshifted(ch, ack) ==
    IF ch < 0 \/ ch > 7
    THEN [err |-> "ValueError", writes |-> <<>>]
    ELSE [err |-> IF ack THEN "none" ELSE "OSError",
          writes |-> <<MuxWrite(ch, ack, ch)>>]
_tca_select_unchecked(ch, ack) ==
    IF ch < 0 \/ ch > 8
    THEN [err |-> "ValueError", writes |-> <<>>]
    ELSE [err |-> IF ack THEN "none" ELSE "OSError",
          writes |-> <<MuxWrite(2^ch, ack, ch)>>]
_tca_select_cumulative(ch, ack) ==
    IF ch < 0 \/ ch > 7
    THEN [err |-> "ValueError", writes |-> <<>>]
    ELSE [err |-> IF ack THEN "none" ELSE "OSError",
          writes |-> <<MuxWrite(2^(ch + 1) - 1, ack, ch)>>]

_tca_select_silent(ch, ack) ==
    IF ch < 0 \/ ch > 7
    THEN [err |-> "ValueError", writes |-> <<>>]
    ELSE [err |-> "none", writes |-> <<MuxWrite(2^ch, ack, ch)>>]

_tca_select(ch, ack) ==
    IF ch < 0 \/ ch > 7
    THEN [err |-> "ValueError", writes |-> <<>>]
    ELSE [err |-> IF ack THEN "none" ELSE "OSError",
          writes |-> <<MuxWrite(2^ch, ack, ch)>>]

(* IMUTester._tca_select (src/MXtest.py): the same code with a longer      *)
(* settle delay.                                                           *)
IMUTester_tca_select(ch, ack) ==
    IF ch < 0 \/ ch > 7
    THEN [err |-> "ValueError", writes |-> <<>>]
    ELSE [err |-> IF ack THEN "none" ELSE "OSError",
          writes |-> <<MuxWrite(2^ch, ack, ch)>>]

(* The control byte after the writes of a select (or of the reset): the    *)
(* TCA9548A latches the byte of an acknowledged write.                     *)
Latch(byte, writes) ==
    IF writes # <<>> /\ writes[Len(writes)].ok
    THEN writes[Len(writes)].val ELSE byte

-----------------------------------------------------------------------------
(* Raw-to-signed16 conversion.  high << 8 is high * 2^8; | is bitwise or.   *)

RECURSIVE BitOr(_, _)
BitOr(a, b) ==
    IF a = 0 THEN b
    ELSE IF b = 0 THEN a
    ELSE (IF a % 2 = 1 \/ b % 2 = 1 THEN 1 ELSE 0) + 2 * BitOr(a \div 2, b \div 2)

(* Faulty variant of _convert_bytes: the sign test off by one.              *)
_convert_bytes_strict(high, low) ==
    LET value == BitOr(high * 2^8, low)
    IN  IF value > 32768 THEN value - 65536 ELSE value

_convert_bytes(high, low) ==
    LET value == BitOr(high * 2^8, low)
    IN  IF value >= 32768 THEN value - 65536 ELSE value

(* IMUTester._convert_bytes_to_int (src/MXtest.py): value is reassigned.   *)
_convert_bytes_to_int(high, low) ==
    LET value  == BitOr(high * 2^8, low)
        value2 == IF value >= 32768 THEN value - 65536 ELSE value
    IN  value2

(* MPU9250_Simple._convert (src/NewTest.py).                               *)
_convert(high, low) ==
    LET value == BitOr(high * 2^8, low)
    IN  IF value >= 32768 THEN value - 65536 ELSE value

(* A decimal literal of the source, mant * 10^-exp, and a physical value   *)
(* raw / lsb * unit + offset kept as the expression the source evaluates.  *)
Dec(mant, exp) == [mant |-> mant, exp |-> exp]
Physical(raw, lsb, unit, offset) ==
    [raw |-> raw, lsb |-> lsb, unit |-> unit, offset |-> offset]

(* Faulty variant of DecodeSample: the temperature pair taken from the end *)
(* of the block instead of from between the accelerometer and the gyro.    *)
DecodeSample_temp_last(d) ==
    LET ax   == Physical(_convert_bytes(d[1], d[2]), Dec(4096, 0), Dec(980665, 5), Dec(0, 0))
        ay   == Physical(_convert_bytes(d[3], d[4]), Dec(4096, 0), Dec(980665, 5), Dec(0, 0))
        az   == Physical(_convert_bytes(d[5], d[6]), Dec(4096, 0), Dec(980665, 5), Dec(0, 0))
        gx   == Physical(_convert_bytes(d[7], d[8]), Dec(328, 1), Dec(174533, 7), Dec(0, 0))
        gy   == Physical(_convert_bytes(d[9], d[10]), Dec(328, 1), Dec(174533, 7), Dec(0, 0))
        gz   == Physical(_convert_bytes(d[11], d[12]), Dec(328, 1), Dec(174533, 7), Dec(0, 0))
        temp == Physical(_convert_bytes(d[13], d[14]), Dec(33387, 2), Dec(1, 0), Dec(21, 0))
    IN  [accel |-> <<ax, ay, az>>, gyro |-> <<gx, gy, gz>>, temp |-> temp]

(* read_imu_data, lines 126-143: data[i] of the source is d[i + 1].        *)
DecodeSample(d) ==
    LET ax   == Physical(_convert_bytes(d[1], d[2]), Dec(4096, 0), Dec(980665, 5), Dec(0, 0))
        ay   == Physical(_convert_bytes(d[3], d[4]), Dec(4096, 0), Dec(980665, 5), Dec(0, 0))
        az   == Physical(_convert_bytes(d[5], d[6]), Dec(4096, 0), Dec(980665, 5), Dec(0, 0))
        temp == Physical(_convert_bytes(d[7], d[8]), Dec(33387, 2), Dec(1, 0), Dec(21, 0))
        gx   == Physical(_convert_bytes(d[9], d[10]), Dec(328, 1), Dec(174533, 7), Dec(0, 0))
        gy   == Physical(_convert_bytes(d[11], d[12]), Dec(328, 1), Dec(174533, 7), Dec(0, 0))
        gz   == Physical(_convert_bytes(d[13], d[14]), Dec(328, 1), Dec(174533, 7), Dec(0, 0))
    IN  [accel |-> <<ax, ay, az>>, gyro |-> <<gx, gy, gz>>, temp |-> temp]

(* MPU9250_Simple.read_accel_gyro (src/NewTest.py), lines 46-64: the same   *)
(* decoding, with a success flag.                                          *)
read_accel_gyro(d) ==
    LET ax   == Physical(_convert(d[1], d[2]), Dec(4096, 0), Dec(980665, 5), Dec(0, 0))
        ay   == Physical(_convert(d[3], d[4]), Dec(4096, 0), Dec(980665, 5), Dec(0, 0))
        az   == Physical(_convert(d[5], d[6]), Dec(4096, 0), Dec(980665, 5), Dec(0, 0))
        temp == Physical(_convert(d[7], d[8]), Dec(33387, 2), Dec(1, 0), Dec(21, 0))
        gx   == Physical(_convert(d[9], d[10]), Dec(328, 1), Dec(174533, 7), Dec(0, 0))
        gy   == Physical(_convert(d[11], d[12]), Dec(328, 1), Dec(174533, 7), Dec(0, 0))
        gz   == Physical(_convert(d[13], d[14]), Dec(328, 1), Dec(174533, 7), Dec(0, 0))
    IN  [accel |-> <<ax, ay, az>>, gyro |-> <<gx, gy, gz>>, temp |-> temp,
         success |-> TRUE]

-----------------------------------------------------------------------------
(* src/i2cdetect.py: main() and IMUMultiplexer.                            *)

NoCall == [cls |-> "none", channel |-> 0, ack |-> FALSE, err |-> "nocall",
           prevLog |-> <<>>, prevCtrl |-> 0]
NoConv == [stage |-> "none", v |-> 0, high |-> 0, low |-> 0, out |-> <<>>]

InitCommon(start) ==
    /\ pc = start
    /\ bus_idx = 1
    /\ opened = {}
    /\ multiplexer = 0
    /\ ctrl = 0
    /\ pos = 1
    /\ addr_idx = 1
    /\ devices_found = <<>>
    /\ imus = <<>>
    /\ imus_initialized = FALSE
    /\ data = <<>>
    /\ count = 0
    /\ log = <<>>
    /\ locked = {}
    /\ sel = NoCall
    /\ step = "none"
    /\ scan_results = <<>>
    /\ detailed_results = <<>>

InitAt(start) ==
    /\ InitCommon(start)
    /\ conv = NoConv

Init == InitAt("main_for")

(* main() line 180, __init__ line 15: SMBus(bus_number).  When it raises,  *)
(* __init__ re-raises and main() goes on to the next bus.                  *)
OpenBus(ok) ==
    /\ pc = "main_for"
    /\ bus_idx <= Len(buses_to_try)
    /\ IF ok
       THEN /\ opened' = opened \cup {buses_to_try[bus_idx]}
            /\ pc' = "ctor_reset"
            /\ bus_idx' = bus_idx
       ELSE /\ opened' = opened
            /\ pc' = "main_for"
            /\ bus_idx' = bus_idx + 1
    /\ UNCHANGED <<multiplexer, ctrl, pos, addr_idx, devices_found, imus,
                   imus_initialized, data, count, log, others>>

(* Faulty variant of ResetWrite: the fault of the reset write is reported   *)
(* and the constructor goes on.                                            *)
ResetWrite_ignored(ack) ==
    /\ pc = "ctor_reset"
    /\ log' = <<MuxWrite(0, ack, 0)>>
    /\ ctrl' = Latch(ctrl, log')
    /\ imus_initialized' = FALSE
    /\ pos' = 1
    /\ pc' = "scan_select"
    /\ UNCHANGED <<bus_idx, opened, multiplexer, addr_idx, devices_found, imus,
                   data, count, others>>

(* __init__ line 20: the reset write that tests the multiplexer's          *)
(* presence.  When it raises, __init__ re-raises (the handle stays open)   *)
(* and main() goes on to the next bus.                                     *)
ResetWrite(ack) ==
    /\ pc = "ctor_reset"
    /\ log' = <<MuxWrite(0, ack, 0)>>
    /\ ctrl' = Latch(ctrl, log')
    /\ IF ack
       THEN /\ imus_initialized' = FALSE
            /\ pos' = 1
            /\ pc' = "scan_select"
            /\ bus_idx' = bus_idx
       ELSE /\ imus_initialized' = imus_initialized
            /\ pos' = pos
            /\ pc' = "main_for"
            /\ bus_idx' = bus_idx + 1
    /\ UNCHANGED <<opened, multiplexer, addr_idx, devices_found, imus, data,
                   count, others>>

(* main() lines 187-189: no bus gave a multiplexer.                         *)
NoMultiplexer ==
    /\ pc = "main_for"
    /\ bus_idx > Len(buses_to_try)
    /\ multiplexer = 0
    /\ pc' = "done"
    /\ UNCHANGED <<bus_idx, opened, multiplexer, ctrl, pos, addr_idx,
                   devices_found, imus, imus_initialized, data, count, log, others>>

(* scan_all_channels: channel = pos - 1 of range(8).                        *)
ScanChannel == pos - 1

ScanNextChannel ==
    /\ pos' = pos + 1
    /\ addr_idx' = 1
    /\ pc' = "scan_select"

ScanNextAddress ==
    IF addr_idx < Len(scan_addresses)
    THEN /\ addr_idx' = addr_idx + 1
         /\ pos' = pos
         /\ pc' = "scan_wake"
    ELSE ScanNextChannel

(* Faulty variant of ScanOnFault: a sensor fault of the scan leaves the    *)
(* constructor as the failed reset write does.                             *)
ScanOnFault_raise ==
    /\ pc' = "main_for"
    /\ UNCHANGED <<pos, addr_idx>>

(* lines 63-64: "except: pass" of the address loop.                         *)
ScanOnFault == ScanNextAddress

(* line 49; a failed select is caught at line 71.                           *)
ScanSelect(ack) ==
    /\ pc = "scan_select"
    /\ pos <= NumChannels
    /\ LET r == _tca_select(ScanChannel, ack)
       IN  /\ log' = r.writes
           /\ ctrl' = Latch(ctrl, r.writes)
           /\ IF r.err = "none"
              THEN /\ devices_found' = <<>>
                   /\ addr_idx' = 1
                   /\ pos' = pos
                   /\ pc' = "scan_wake"
              ELSE /\ devices_found' = devices_found
                   /\ ScanNextChannel
    /\ UNCHANGED <<bus_idx, opened, multiplexer, imus, imus_initialized, data,
                   count, others>>

(* line 56; a fault is swallowed at line 63.                                *)
ScanWake(ack) ==
    /\ pc = "scan_wake"
    /\ log' = Append(log, WakeWrite(scan_addresses[addr_idx], ack, ScanChannel))
    /\ IF ack
       THEN /\ pc' = "scan_who"
            /\ UNCHANGED <<pos, addr_idx>>
       ELSE ScanOnFault
    /\ UNCHANGED <<bus_idx, opened, multiplexer, ctrl, devices_found, imus,
                   imus_initialized, data, count, others>>

(* lines 60-64.                                                            *)
ScanWho(res) ==
    /\ pc = "scan_who"
    /\ log' = Append(log, WhoRead(scan_addresses[addr_idx], res, ScanChannel))
    /\ devices_found' =
          IF res.ok /\ res.val \in known_ids
          THEN Append(devices_found,
                      [address |-> scan_addresses[addr_idx], who_am_i |-> res.val])
          ELSE devices_found
    /\ ScanNextAddress
    /\ UNCHANGED <<bus_idx, opened, multiplexer, ctrl, imus, imus_initialized,
                   data, count, others>>

(* The scan is over: __init__ returns (its local devices_found is gone),   *)
(* main() keeps the object and breaks (lines 180-182), then calls          *)
(* initialize_imus (line 192, lines 78-79).                                *)
ScanDone ==
    /\ pc = "scan_select"
    /\ pos > NumChannels
    /\ multiplexer' = buses_to_try[bus_idx]
    /\ imus' = <<>>
    /\ pos' = 1
    /\ addr_idx' = 1
    /\ devices_found' = <<>>
    /\ log' = <<>>
    /\ pc' = "init_select"
    /\ UNCHANGED <<bus_idx, opened, ctrl, imus_initialized, data, count, others>>

-----------------------------------------------------------------------------
(* initialize_imus: channel = imu_channels[pos].                            *)

(* Faulty variant of init_addresses: the candidates in the opposite order. *)
init_addresses_reversed == <<ADDR_HIGH, ADDR_LOW>>

init_addresses == <<ADDR_LOW, ADDR_HIGH>>      \* line 86
InitAccepts(who_am_i) == who_am_i \in {WHO_MPU9250, WHO_MPU9255}   \* line 94
InitChannel == imu_channels[pos]

InitNextChannel ==
    /\ pos' = pos + 1
    /\ addr_idx' = 1
    /\ pc' = "init_select"

InitNextAddress ==
    IF addr_idx < Len(init_addresses)
    THEN /\ addr_idx' = addr_idx + 1
         /\ pos' = pos
         /\ pc' = "init_wake"
    ELSE InitNextChannel

(* Faulty variant of InitOnFault: a candidate's fault ends the channel, as  *)
(* a failed select does.                                                   *)
InitOnFault_abort == InitNextChannel

(* lines 102-103: "except: continue" of the candidate loop.                 *)
InitOnFault == InitNextAddress

(* line 82; a failed select is caught at line 108.                          *)
InitSelect(ack) ==
    /\ pc = "init_select"
    /\ pos <= Len(imu_channels)
    /\ LET r == _tca_select(InitChannel, ack)
       IN  /\ log' = r.writes
           /\ ctrl' = Latch(ctrl, r.writes)
           /\ IF r.err = "none"
              THEN /\ addr_idx' = 1
                   /\ pos' = pos
                   /\ pc' = "init_wake"
              ELSE InitNextChannel
    /\ UNCHANGED <<bus_idx, opened, multiplexer, devices_found, imus,
                   imus_initialized, data, count, others>>

(* line 89.                                                                *)
InitWake(ack) ==
    /\ pc = "init_wake"
    /\ log' = Append(log, WakeWrite(init_addresses[addr_idx], ack, InitChannel))
    /\ IF ack
       THEN /\ pc' = "init_who"
            /\ UNCHANGED <<pos, addr_idx>>
       ELSE InitOnFault
    /\ UNCHANGED <<bus_idx, opened, multiplexer, ctrl, devices_found, imus,
                   imus_initialized, data, count, others>>

(* lines 93-103: an accepted candidate is recorded and ends the candidate  *)
(* loop (break); a rejected one falls through to the next candidate.       *)
InitWho(res) ==
    /\ pc = "init_who"
    /\ log' = Append(log, WhoRead(init_addresses[addr_idx], res, InitChannel))
    /\ IF ~res.ok
       THEN /\ imus' = imus
            /\ InitOnFault
       ELSE IF InitAccepts(res.val)
       THEN /\ imus' = Append(imus, [channel |-> InitChannel,
                                     address |-> init_addresses[addr_idx],
                                     who_am_i |-> res.val])
            /\ InitNextChannel
       ELSE /\ imus' = imus
            /\ InitNextAddress
    /\ UNCHANGED <<bus_idx, opened, multiplexer, ctrl, devices_found,
                   imus_initialized, data, count, others>>

(* Faulty variant of InitDone: main() enters the loop whatever             *)
(* initialize_imus returned.                                               *)
InitDone_unchecked ==
    /\ pc = "init_select"
    /\ pos > Len(imu_channels)
    /\ imus_initialized' = (Len(imus) > 0)
    /\ pc' = "loop"
    /\ UNCHANGED <<bus_idx, opened, multiplexer, ctrl, pos, addr_idx,
                   devices_found, imus, data, count, log, others>>

(* lines 111-112 and main() lines 192-197: without a slot main() closes    *)
(* the bus and returns, otherwise it enters the reading loop.              *)
InitDone ==
    /\ pc = "init_select"
    /\ pos > Len(imu_channels)
    /\ imus_initialized' = (Len(imus) > 0)
    /\ IF imus_initialized'
       THEN /\ pc' = "loop"
            /\ opened' = opened
       ELSE /\ pc' = "done"
            /\ opened' = opened \ {multiplexer}
    /\ UNCHANGED <<bus_idx, multiplexer, ctrl, pos, addr_idx, devices_found,
                   imus, data, count, log, others>>

-----------------------------------------------------------------------------
(* main() lines 205-225, read_all_imus and read_imu_data: the slot read is *)
(* imus[pos], in the order of self.imus.keys().                            *)

HasSlot(ch) == \E i \in 1..Len(imus) : imus[i].channel = ch
SlotOf(ch)  == CHOOSE i \in 1..Len(imus) : imus[i].channel = ch

(* Faulty variant of ReadAddress: the default address instead of the one   *)
(* that discovery resolved.                                                *)
ReadAddress_default(ch) == ADDR_LOW

(* line 121: address = self.imus[channel]['address'].                       *)
ReadAddress(ch) == imus[SlotOf(ch)].address

ReadNextSlot ==
    /\ pos' = pos + 1
    /\ pc' = "read_select"

(* Faulty variant of ReadOnFault: the fault ends the reading.               *)
ReadOnFault_abort ==
    /\ pos' = Len(imus) + 1
    /\ pc' = "read_select"
    /\ UNCHANGED <<imus, data>>

(* Faulty variant of ReadOnFault: the slot that faulted is tried again at   *)
(* once.                                                                   *)
ReadOnFault_retry ==
    /\ pc' = "read_select"
    /\ UNCHANGED <<pos, imus, data>>

(* Faulty variant of ReadOnFault: the slot that faulted is given an empty   *)
(* sample.                                                                 *)
ReadOnFault_empty ==
    /\ ReadNextSlot
    /\ data' = Append(data, [channel |-> imus[pos].channel, imu_data |-> <<>>])
    /\ UNCHANGED imus

(* Faulty variant of ReadOnFault: the fault is raised out of the loop.      *)
ReadOnFault_raise ==
    /\ pc' = "finally"
    /\ UNCHANGED <<pos, imus, data>>

(* Faulty variant of ReadOnFault: the slot that faulted is forgotten.       *)
ReadOnFault_drop ==
    /\ imus' = SubSeq(imus, 1, pos - 1) \o SubSeq(imus, pos + 1, Len(imus))
    /\ pos' = pos
    /\ pc' = "read_select"
    /\ UNCHANGED data

(* lines 145-147: read_imu_data returns None, read_all_imus goes on.        *)
ReadOnFault ==
    /\ ReadNextSlot
    /\ UNCHANGED <<imus, data>>

(* lines 207-208 and 156: a reading starts.                                 *)
ReadAllBegin ==
    /\ pc = "loop"
    /\ count < MaxCycles
    /\ data' = <<>>
    /\ pos' = 1
    /\ log' = <<>>
    /\ pc' = "read_select"
    /\ UNCHANGED <<bus_idx, opened, multiplexer, ctrl, addr_idx, devices_found,
                   imus, imus_initialized, count, others>>

(* lines 116-121.                                                          *)
ReadSelect(ack) ==
    /\ pc = "read_select"
    /\ pos <= Len(imus)
    /\ IF ~HasSlot(imus[pos].channel)
       THEN /\ ReadNextSlot
            /\ UNCHANGED <<imus, data, log, ctrl>>
       ELSE LET r == _tca_select(imus[pos].channel, ack)
            IN  /\ log' = log \o r.writes
                /\ ctrl' = Latch(ctrl, r.writes)
                /\ IF r.err = "none"
                   THEN /\ pc' = "read_block"
                        /\ UNCHANGED <<pos, imus, data>>
                   ELSE ReadOnFault
    /\ UNCHANGED <<bus_idx, opened, multiplexer, addr_idx, devices_found,
                   imus_initialized, count, others>>

(* lines 124-143 and 159-160.                                              *)
ReadBlock(res) ==
    /\ pc = "read_block"
    /\ log' = Append(log, BlockRead(ReadAddress(imus[pos].channel), res,
                                    imus[pos].channel))
    /\ IF res.ok
       THEN /\ data' = Append(data, [channel |-> imus[pos].channel,
                                     imu_data |-> DecodeSample(res.blk)])
            /\ imus' = imus
            /\ ReadNextSlot
       ELSE ReadOnFault
    /\ UNCHANGED <<bus_idx, opened, multiplexer, ctrl, addr_idx, devices_found,
                   imus_initialized, count, others>>

(* lines 161 and 209-218: the reading is printed, then the loop sleeps.     *)
ReadAllDone ==
    /\ pc = "read_select"
    /\ pos > Len(imus)
    /\ count' = count + 1
    /\ pc' = "loop"
    /\ UNCHANGED <<bus_idx, opened, multiplexer, ctrl, pos, addr_idx,
                   devices_found, imus, imus_initialized, data, log, others>>

(* lines 220-221: KeyboardInterrupt is raised wherever the loop is; the     *)
(* frames of read_all_imus and read_imu_data are unwound with their locals. *)
Cancel ==
    /\ pc \in {"loop", "read_select", "read_block"}
    /\ pc' = "finally"
    /\ pos' = 1
    /\ data' = <<>>
    /\ UNCHANGED <<bus_idx, opened, multiplexer, ctrl, addr_idx, devices_found,
                   imus, imus_initialized, count, log, others>>

(* lines 223-225 and close(), lines 163-166.                                *)
Finally ==
    /\ pc = "finally"
    /\ opened' = opened \ {multiplexer}
    /\ log' = <<>>
    /\ pc' = "done"
    /\ UNCHANGED <<bus_idx, multiplexer, ctrl, pos, addr_idx, devices_found,
                   imus, imus_initialized, data, count, others>>

Next ==
    \/ \E ok \in BOOLEAN : OpenBus(ok)
    \/ \E ack \in BOOLEAN : ResetWrite(ack)
    \/ NoMultiplexer
    \/ \E ack \in BOOLEAN : ScanSelect(ack)
    \/ \E ack \in BOOLEAN : ScanWake(ack)
    \/ \E res \in WhoOutcomes : ScanWho(res)
    \/ ScanDone
    \/ \E ack \in BOOLEAN : InitSelect(ack)
    \/ \E ack \in BOOLEAN : InitWake(ack)
    \/ \E res \in WhoOutcomes : InitWho(res)
    \/ InitDone
    \/ ReadAllBegin
    \/ \E ack \in BOOLEAN : ReadSelect(ack)
    \/ \E res \in BlockOutcomes : ReadBlock(res)
    \/ ReadAllDone
    \/ Cancel
    \/ Finally

Spec == Init /\ [][Next]_vars

-----------------------------------------------------------------------------
(* src/NewTest.py: main(), scan_all_channels, test_imu_on_channels and     *)
(* continuous_read (specification SpecAdapter).  The adapter library does  *)
(* the channel switching inside tca[channel]; the script takes and gives   *)
(* back the channel's lock.  The sensor operations go through i2c.writeto  *)
(* and i2c.writeto_then_readfrom and are logged like their smbus           *)
(* counterparts.                                                           *)

expected_channels == <<2, 3, 4>>        \* line 211
imu_address       == ADDR_HIGH          \* line 212
ScanOutcomes ==
    {[ok |-> FALSE, addresses |-> <<>>], [ok |-> TRUE, addresses |-> <<>>],
     [ok |-> TRUE, addresses |-> <<MuxAddr>>],
     [ok |-> TRUE, addresses |-> <<ADDR_HIGH, MuxAddr>>]}
IsSensorAddress(a) == a # MuxAddr       \* line 88

AdChannel == expected_channels[pos]

(* lines 203-205: board.I2C() and TCA9548A(i2c); a failure is reported at  *)
(* line 234 and main() ends.                                               *)
AdInit(ok) ==
    /\ pc = "ad_init"
    /\ pc' = IF ok THEN "ad_scan_lock" ELSE "ad_done"
    /\ pos' = 1
    /\ UNCHANGED <<bus_idx, opened, multiplexer, ctrl, addr_idx, devices_found,
                   imus, imus_initialized, data, count, log, locked, sel, conv, mx>>

(* scan_all_channels, line 83: channel = pos - 1 of range(8).               *)
AdScanLock(ok) ==
    /\ pc = "ad_scan_lock"
    /\ pos <= NumChannels
    /\ IF ok
       THEN /\ locked' = locked \cup {pos - 1}
            /\ pc' = "ad_scan"
            /\ pos' = pos
       ELSE /\ locked' = locked
            /\ pc' = "ad_scan_lock"
            /\ pos' = pos + 1
    /\ UNCHANGED <<bus_idx, opened, multiplexer, ctrl, addr_idx, devices_found,
                   imus, imus_initialized, data, count, log, sel, conv, mx>>

(* lines 84-99.                                                            *)
AdScan(res) ==
    /\ pc = "ad_scan"
    /\ LET filtered_addresses == SelectSeq(res.addresses, IsSensorAddress)
       IN  devices_found' =
              IF res.ok /\ filtered_addresses # <<>>
              THEN Append(devices_found, [channel |-> pos - 1,
                                          addresses |-> filtered_addresses])
              ELSE devices_found
    /\ locked' = locked \ {pos - 1}
    /\ pos' = pos + 1
    /\ pc' = "ad_scan_lock"
    /\ UNCHANGED <<bus_idx, opened, multiplexer, ctrl, addr_idx, imus,
                   imus_initialized, data, count, log, sel, conv, mx>>

(* line 103 and lines 208-212, 110: the scan returns (main() never reads   *)
(* its result again) and test_imu_on_channels starts.                      *)
AdScanDone ==
    /\ pc = "ad_scan_lock"
    /\ pos > NumChannels
    /\ devices_found' = <<>>
    /\ imus' = <<>>
    /\ pos' = 1
    /\ log' = <<>>
    /\ pc' = "ad_lock"
    /\ UNCHANGED <<bus_idx, opened, multiplexer, ctrl, addr_idx,
                   imus_initialized, data, count, locked, sel, conv, mx>>

AdNextChannel ==
    /\ pos' = pos + 1
    /\ pc' = "ad_lock"

(* line 115.                                                               *)
AdTryLock(ok) ==
    /\ pc = "ad_lock"
    /\ pos <= Len(expected_channels)
    /\ log' = <<>>
    /\ IF ok
       THEN /\ locked' = locked \cup {AdChannel}
            /\ pc' = "ad_wake"
            /\ pos' = pos
       ELSE /\ locked' = locked
            /\ AdNextChannel
    /\ UNCHANGED <<bus_idx, opened, multiplexer, ctrl, addr_idx, devices_found,
                   imus, imus_initialized, data, count, sel, conv, mx>>

(* line 118, MPU9250_Simple.__init__ lines 18-20: a fault is caught at     *)
(* line 147 and the lock given back at line 150.                           *)
AdWake(ack) ==
    /\ pc = "ad_wake"
    /\ log' = Append(log, WakeWrite(imu_address, ack, AdChannel))
    /\ IF ack
       THEN /\ pc' = "ad_detect"
            /\ UNCHANGED <<pos, locked>>
       ELSE /\ locked' = locked \ {AdChannel}
            /\ AdNextChannel
    /\ UNCHANGED <<bus_idx, opened, multiplexer, ctrl, addr_idx, devices_found,
                   imus, imus_initialized, data, count, sel, conv, mx>>

(* line 121, detect() lines 32-38: a fault gives None (line 145).           *)
AdDetect(res) ==
    /\ pc = "ad_detect"
    /\ log' = Append(log, WhoRead(imu_address, res, AdChannel))
    /\ IF res.ok
       THEN /\ pc' = "ad_read"
            /\ UNCHANGED <<pos, locked>>
       ELSE /\ locked' = locked \ {AdChannel}
            /\ AdNextChannel
    /\ UNCHANGED <<bus_idx, opened, multiplexer, ctrl, addr_idx, devices_found,
                   imus, imus_initialized, data, count, sel, conv, mx>>

(* lines 123-150: whatever who_am_i is, the IMU is kept when its data can   *)
(* be read.                                                                *)
AdRead(res) ==
    /\ pc = "ad_read"
    /\ LET who_am_i == log[Len(log)].val
       IN  imus' = IF res.ok
                   THEN Append(imus, [channel |-> AdChannel,
                                      address |-> imu_address,
                                      who_am_i |-> who_am_i])
                   ELSE imus
    /\ log' = Append(log, BlockRead(imu_address, res, AdChannel))
    /\ locked' = locked \ {AdChannel}
    /\ AdNextChannel
    /\ UNCHANGED <<bus_idx, opened, multiplexer, ctrl, addr_idx, devices_found,
                   imus_initialized, data, count, sel, conv, mx>>

(* lines 154 and 214-232: the prompt is reached when an IMU was found; the *)
(* answer decides whether continuous_read runs.                            *)
AdTestDone(yes) ==
    /\ pc = "ad_lock"
    /\ pos > Len(expected_channels)
    /\ pc' = IF imus # <<>> /\ yes THEN "cr_top" ELSE "ad_done"
    /\ count' = 0
    /\ UNCHANGED <<bus_idx, opened, multiplexer, ctrl, pos, addr_idx,
                   devices_found, imus, imus_initialized, data, log, locked,
                   sel, conv, mx>>

(* continuous_read, lines 165-169.                                         *)
CrBegin ==
    /\ pc = "cr_top"
    /\ count < MaxCycles
    /\ count' = count + 1
    /\ pos' = 1
    /\ log' = <<>>
    /\ pc' = "cr_lock"
    /\ UNCHANGED <<bus_idx, opened, multiplexer, ctrl, addr_idx, devices_found,
                   imus, imus_initialized, data, locked, sel, conv, mx>>

(* line 170.                                                               *)
CrTryLock(ok) ==
    /\ pc = "cr_lock"
    /\ pos <= Len(imus)
    /\ IF ok
       THEN /\ locked' = locked \cup {imus[pos].channel}
            /\ pc' = "cr_read"
            /\ pos' = pos
       ELSE /\ locked' = locked
            /\ pc' = "cr_lock"
            /\ pos' = pos + 1
    /\ UNCHANGED <<bus_idx, opened, multiplexer, ctrl, addr_idx, devices_found,
                   imus, imus_initialized, data, count, log, sel, conv, mx>>

(* Faulty variant of CrRead: the lock is given back on the success path    *)
(* only.                                                                   *)
CrRead_leak(res) ==
    /\ pc = "cr_read"
    /\ log' = Append(log, BlockRead(imus[pos].address, res, imus[pos].channel))
    /\ locked' = IF res.ok THEN locked \ {imus[pos].channel} ELSE locked
    /\ pos' = pos + 1
    /\ pc' = "cr_lock"
    /\ UNCHANGED <<bus_idx, opened, multiplexer, ctrl, addr_idx, devices_found,
                   imus, imus_initialized, data, count, sel, conv, mx>>

(* lines 171-182.                                                          *)
CrRead(res) ==
    /\ pc = "cr_read"
    /\ log' = Append(log, BlockRead(imus[pos].address, res, imus[pos].channel))
    /\ locked' = locked \ {imus[pos].channel}
    /\ pos' = pos + 1
    /\ pc' = "cr_lock"
    /\ UNCHANGED <<bus_idx, opened, multiplexer, ctrl, addr_idx, devices_found,
                   imus, imus_initialized, data, count, sel, conv, mx>>

(* line 186.                                                               *)
CrSleep ==
    /\ pc = "cr_lock"
    /\ pos > Len(imus)
    /\ pc' = "cr_top"
    /\ UNCHANGED <<bus_idx, opened, multiplexer, ctrl, pos, addr_idx,
                   devices_found, imus, imus_initialized, data, count, log,
                   locked, sel, conv, mx>>

(* lines 188-189: KeyboardInterrupt.  Raised inside the try block of line  *)
(* 171, the finally clause of line 181 gives the held lock back while the  *)
(* exception unwinds; raised after try_lock has returned and before the    *)
(* try block is entered, the lock stays held.                              *)
CrCancel(in_try) ==
    /\ pc \in {"cr_top", "cr_lock", "cr_read"}
    /\ locked' = IF in_try THEN {} ELSE locked
    /\ pc' = "ad_done"
    /\ UNCHANGED <<bus_idx, opened, multiplexer, ctrl, pos, addr_idx,
                   devices_found, imus, imus_initialized, data, count, log,
                   sel, conv, mx>>

NextAdapter ==
    \/ \E ok \in BOOLEAN : AdInit(ok)
    \/ \E ok \in BOOLEAN : AdScanLock(ok)
    \/ \E res \in ScanOutcomes : AdScan(res)
    \/ AdScanDone
    \/ \E ok \in BOOLEAN : AdTryLock(ok)
    \/ \E ack \in BOOLEAN : AdWake(ack)
    \/ \E res \in WhoOutcomes : AdDetect(res)
    \/ \E res \in BlockOutcomes : AdRead(res)
    \/ \E yes \in BOOLEAN : AdTestDone(yes)
    \/ CrBegin
    \/ \E ok \in BOOLEAN : CrTryLock(ok)
    \/ \E res \in BlockOutcomes : CrRead(res)
    \/ CrSleep
    \/ \E in_try \in BOOLEAN : CrCancel(in_try)

SpecAdapter == InitAt("ad_init") /\ [][NextAdapter]_vars

-----------------------------------------------------------------------------
(* src/MXtest.py: main() with IMUTester.scan_all_channels,                 *)
(* test_specific_channels, detect_imu_on_channel and                       *)
(* test_imu_communication (specification SpecMX).  step names the step of  *)
(* main() that is running; detect_imu_on_channel and                       *)
(* test_imu_communication return to the loop of that step.                 *)

tester_bus       == 7                   \* line 158
tester_address   == ADDR_HIGH           \* lines 22, 38
tester_channels  == <<2, 3, 4>>         \* line 165, expected_channels
TEMP_OUT_H       == 65                  \* 0x41, line 114
AccelLen         == 6                   \* line 50
TempLen          == 2                   \* line 114
ErrorInfo        == -1                  \* line 36: info is the string "Error: ..."

ReadAt(address, reg, len, res, ch) ==
    [op |-> "read_i2c_block_data", addr |-> address, reg |-> reg,
     val |-> len, ok |-> res.ok, ch |-> ch]

IsExpected(r) == \E i \in 1..Len(tester_channels) : tester_channels[i] = r.channel

(* lines 175-183: the expected channels that were detected by the scan and *)
(* passed the detailed test.                                               *)
working_imus ==
    LET good(ch) ==
            /\ \E i \in 1..Len(scan_results) :
                   scan_results[i].channel = ch /\ scan_results[i].detected
            /\ \E i \in 1..Len(detailed_results) :
                   /\ detailed_results[i].channel = ch
                   /\ detailed_results[i].communication_ok
    IN  SelectSeq(tester_channels, good)

(* The channel the running loop is at.                                     *)
MxChannel ==
    IF step = "scan" THEN pos - 1
    ELSE IF step = "detail" THEN tester_channels[pos]
    ELSE working_imus[pos]

(* line 158, IMUTester.__init__ line 11; a failure is reported at line 222 *)
(* and tester stays None.                                                  *)
MxOpen(ok) ==
    /\ pc = "mx_init"
    /\ IF ok
       THEN /\ opened' = opened \cup {tester_bus}
            /\ step' = "scan"
            /\ pc' = "mx_detect_select"
       ELSE /\ pc' = "mx_done"
            /\ UNCHANGED <<opened, step>>
    /\ pos' = 1
    /\ UNCHANGED <<bus_idx, multiplexer, ctrl, addr_idx, devices_found, imus,
                   imus_initialized, data, count, log, locked, sel, conv,
                   scan_results, detailed_results>>

(* The return of detect_imu_on_channel to its caller: line 67-71 in the    *)
(* scan, lines 98-128 in the detailed test.                                *)
MxDetectReturn(detected, info) ==
    IF step = "scan"
    THEN /\ scan_results' = Append(scan_results,
                [channel |-> MxChannel, detected |-> detected, info |-> info])
         /\ pos' = pos + 1
         /\ pc' = "mx_detect_select"
         /\ UNCHANGED detailed_results
    ELSE IF detected
    THEN /\ pc' = "mx_comm_select"
         /\ UNCHANGED <<pos, scan_results, detailed_results>>
    ELSE /\ detailed_results' = Append(detailed_results,
                [channel |-> MxChannel, detected |-> FALSE,
                 communication_ok |-> FALSE])
         /\ pos' = pos + 1
         /\ pc' = "mx_detect_select"
         /\ UNCHANGED scan_results

(* line 30.                                                                *)
detect_accepts(who_am_i) == who_am_i = WHO_MPU9250

(* detect_imu_on_channel, line 25.                                         *)
MxDetectSelect(ack) ==
    /\ pc = "mx_detect_select"
    /\ step \in {"scan", "detail"}
    /\ pos <= (IF step = "scan" THEN NumChannels ELSE Len(tester_channels))
    /\ LET r == IMUTester_tca_select(MxChannel, ack)
       IN  /\ log' = r.writes
           /\ ctrl' = Latch(ctrl, r.writes)
           /\ IF r.err = "none"
              THEN /\ pc' = "mx_detect_who"
                   /\ UNCHANGED <<pos, scan_results, detailed_results>>
              ELSE MxDetectReturn(FALSE, ErrorInfo)
    /\ UNCHANGED <<bus_idx, opened, multiplexer, addr_idx, devices_found, imus,
                   imus_initialized, data, count, locked, sel, conv, step>>

(* lines 28-36.                                                            *)
MxDetectWho(res) ==
    /\ pc = "mx_detect_who"
    /\ log' = Append(log, WhoRead(tester_address, res, MxChannel))
    /\ IF res.ok
       THEN MxDetectReturn(detect_accepts(res.val), res.val)
       ELSE MxDetectReturn(FALSE, ErrorInfo)
    /\ UNCHANGED <<bus_idx, opened, multiplexer, ctrl, addr_idx, devices_found,
                   imus, imus_initialized, data, count, locked, sel, conv, step>>

(* lines 86 and 163-166: the scan returns and the detailed test starts.    *)
(* main() reads only the 'detected' entries of the expected channels       *)
(* (line 179): scan_results keeps these from here on, and the 'info' of an *)
(* entry that was not detected is no longer told apart.                    *)
MxScanDone ==
    /\ pc = "mx_detect_select"
    /\ step = "scan"
    /\ pos > NumChannels
    /\ scan_results' =
          LET kept == SelectSeq(scan_results, IsExpected)
          IN  [i \in 1..Len(kept) |->
                 [channel |-> kept[i].channel, detected |-> kept[i].detected,
                  info |-> IF kept[i].detected THEN kept[i].info ELSE ErrorInfo]]
    /\ step' = "detail"
    /\ pos' = 1
    /\ log' = <<>>
    /\ UNCHANGED <<pc, bus_idx, opened, multiplexer, ctrl, addr_idx,
                   devices_found, imus, imus_initialized, data, count, locked,
                   sel, conv, detailed_results>>


(* The return of test_imu_communication to its caller: lines 104-125 in    *)
(* the detailed test, lines 207-218 in the quick data read.                *)
MxCommReturn(success) ==
    IF step = "detail"
    THEN IF success
         THEN /\ pc' = "mx_temp_select"
              /\ UNCHANGED <<pos, detailed_results>>
         ELSE /\ detailed_results' = Append(detailed_results,
                     [channel |-> MxChannel, detected |-> TRUE,
                      communication_ok |-> FALSE])
              /\ pos' = pos + 1
              /\ pc' = "mx_detect_select"
    ELSE /\ pos' = pos + 1
         /\ pc' = "mx_comm_select"
         /\ UNCHANGED detailed_results

(* test_imu_communication, line 41.  In the quick data read the call       *)
(* starts the work on the channel.                                         *)
MxCommSelect(ack) ==
    /\ pc = "mx_comm_select"
    /\ step = "quick" => pos <= Len(working_imus)
    /\ LET r == IMUTester_tca_select(MxChannel, ack)
       IN  /\ log' = (IF step = "quick" THEN <<>> ELSE log) \o r.writes
           /\ ctrl' = Latch(ctrl, r.writes)
           /\ IF r.err = "none"
              THEN /\ pc' = "mx_comm_wake"
                   /\ UNCHANGED <<pos, detailed_results>>
              ELSE MxCommReturn(FALSE)
    /\ UNCHANGED <<bus_idx, opened, multiplexer, addr_idx, devices_found, imus,
                   imus_initialized, data, count, locked, sel, conv, step,
                   scan_results>>

(* lines 44-45.                                                            *)
MxCommWake(ack) ==
    /\ pc = "mx_comm_wake"
    /\ log' = Append(log, WakeWrite(tester_address, ack, MxChannel))
    /\ IF ack
       THEN /\ pc' = "mx_comm_who"
            /\ UNCHANGED <<pos, detailed_results>>
       ELSE MxCommReturn(FALSE)
    /\ UNCHANGED <<bus_idx, opened, multiplexer, ctrl, addr_idx, devices_found,
                   imus, imus_initialized, data, count, locked, sel, conv, step,
                   scan_results>>

(* line 48: the value is returned, not compared.                           *)
MxCommWho(res) ==
    /\ pc = "mx_comm_who"
    /\ log' = Append(log, WhoRead(tester_address, res, MxChannel))
    /\ IF res.ok
       THEN /\ pc' = "mx_comm_read"
            /\ UNCHANGED <<pos, detailed_results>>
       ELSE MxCommReturn(FALSE)
    /\ UNCHANGED <<bus_idx, opened, multiplexer, ctrl, addr_idx, devices_found,
                   imus, imus_initialized, data, count, locked, sel, conv, step,
                   scan_results>>

(* lines 51-59.                                                            *)
MxCommRead(res) ==
    /\ pc = "mx_comm_read"
    /\ log' = Append(log, ReadAt(tester_address, ACCEL_XOUT_H, AccelLen, res, MxChannel))
    /\ MxCommReturn(res.ok)
    /\ UNCHANGED <<bus_idx, opened, multiplexer, ctrl, addr_idx, devices_found,
                   imus, imus_initialized, data, count, locked, sel, conv, step,
                   scan_results>>

(* The end of the loop body of test_specific_channels, lines 125-128, once *)
(* the communication test has passed.                                      *)
MxDetailRecord ==
    /\ detailed_results' = Append(detailed_results,
           [channel |-> MxChannel, detected |-> TRUE, communication_ok |-> TRUE])
    /\ pos' = pos + 1
    /\ pc' = "mx_detect_select"

(* lines 111-117: the temperature read; its fault is only reported.        *)
MxTempSelect(ack) ==
    /\ pc = "mx_temp_select"
    /\ LET r == IMUTester_tca_select(MxChannel, ack)
       IN  /\ log' = log \o r.writes
           /\ ctrl' = Latch(ctrl, r.writes)
           /\ IF r.err = "none"
              THEN /\ pc' = "mx_temp_read"
                   /\ UNCHANGED <<pos, detailed_results>>
              ELSE MxDetailRecord
    /\ UNCHANGED <<bus_idx, opened, multiplexer, addr_idx, devices_found, imus,
                   imus_initialized, data, count, locked, sel, conv, step,
                   scan_results>>

MxTempRead(res) ==
    /\ pc = "mx_temp_read"
    /\ log' = Append(log, ReadAt(tester_address, TEMP_OUT_H, TempLen, res, MxChannel))
    /\ MxDetailRecord
    /\ UNCHANGED <<bus_idx, opened, multiplexer, ctrl, addr_idx, devices_found,
                   imus, imus_initialized, data, count, locked, sel, conv, step,
                   scan_results>>

(* lines 132 and 168-205: the summary, then the quick data read when an    *)
(* IMU works.                                                              *)
MxDetailDone ==
    /\ pc = "mx_detect_select"
    /\ step = "detail"
    /\ pos > Len(tester_channels)
    /\ IF working_imus # <<>>
       THEN /\ step' = "quick"
            /\ pc' = "mx_comm_select"
       ELSE /\ step' = "none"
            /\ pc' = "mx_finally"
    /\ pos' = 1
    /\ log' = <<>>
    /\ UNCHANGED <<bus_idx, opened, multiplexer, ctrl, addr_idx, devices_found,
                   imus, imus_initialized, data, count, locked, sel, conv,
                   scan_results, detailed_results>>

(* line 206: the loop over working_imus ends.                              *)
MxQuickDone ==
    /\ pc = "mx_comm_select"
    /\ step = "quick"
    /\ pos > Len(working_imus)
    /\ step' = "none"
    /\ pc' = "mx_finally"
    /\ UNCHANGED <<bus_idx, opened, multiplexer, ctrl, pos, addr_idx,
                   devices_found, imus, imus_initialized, data, count, log,
                   locked, sel, conv, scan_results, detailed_results>>

(* lines 229-231, close() line 143.                                        *)
MxFinally ==
    /\ pc = "mx_finally"
    /\ opened' = opened \ {tester_bus}
    /\ pc' = "mx_done"
    /\ UNCHANGED <<bus_idx, multiplexer, ctrl, pos, addr_idx, devices_found,
                   imus, imus_initialized, data, count, log, locked, sel, conv,
                   mx>>

NextMX ==
    \/ \E ok \in BOOLEAN : MxOpen(ok)
    \/ \E ack \in BOOLEAN : MxDetectSelect(ack)
    \/ \E res \in WhoOutcomes : MxDetectWho(res)
    \/ MxScanDone
    \/ \E ack \in BOOLEAN : MxCommSelect(ack)
    \/ \E ack \in BOOLEAN : MxCommWake(ack)
    \/ \E res \in WhoOutcomes : MxCommWho(res)
    \/ \E res \in BlockOutcomes : MxCommRead(res)
    \/ \E ack \in BOOLEAN : MxTempSelect(ack)
    \/ \E res \in BlockOutcomes : MxTempRead(res)
    \/ MxDetailDone
    \/ MxQuickDone
    \/ MxFinally

SpecMX == InitAt("mx_init") /\ [][NextMX]_vars

-----------------------------------------------------------------------------
(* Direct calls of _tca_select with any argument, as a unit test of the    *)
(* two classes would make them (specification SpecSelect).                 *)

SelectArgs == -1..8

DoSelect(cls, ch, ack) ==
    LET r == IF cls = "IMUMultiplexer"
             THEN _tca_select(ch, ack) ELSE IMUTester_tca_select(ch, ack)
    IN  /\ pc = "select_calls"
        /\ Len(log) < MaxWrites
        /\ sel' = [cls |-> cls, channel |-> ch, ack |-> ack, err |-> r.err,
                   prevLog |-> log, prevCtrl |-> ctrl]
        /\ log' = log \o r.writes
        /\ ctrl' = Latch(ctrl, r.writes)
        /\ UNCHANGED <<pc, bus_idx, opened, multiplexer, pos, addr_idx,
                       devices_found, imus, imus_initialized, data, count,
                       locked, conv, mx>>

CallSelect(ch, ack) == DoSelect("IMUMultiplexer", ch, ack)

CallSelectTester(ch, ack) == DoSelect("IMUTester", ch, ack)

NextSelect ==
    \/ \E ch \in SelectArgs, ack \in BOOLEAN : CallSelect(ch, ack)
    \/ \E ch \in SelectArgs, ack \in BOOLEAN : CallSelectTester(ch, ack)

SpecSelect == InitAt("select_calls") /\ [][NextSelect]_vars

-----------------------------------------------------------------------------
(* Direct calls of read_imu_data with any channel on an IMUMultiplexer     *)
(* whose initialize_imus has run (specification SpecRead).  sel holds the  *)
(* channel asked for and what the call returned; data holds the sample.    *)

ReadArgs == 0..(NumChannels - 1)

(* The object after __init__ on the first bus; initialize_imus is called.  *)
InitRead ==
    /\ pc = "init_select"
    /\ bus_idx = 1
    /\ opened = {buses_to_try[1]}
    /\ multiplexer = buses_to_try[1]
    /\ ctrl = 2^(NumChannels - 1)
    /\ pos = 1
    /\ addr_idx = 1
    /\ devices_found = <<>>
    /\ imus = <<>>
    /\ imus_initialized = FALSE
    /\ data = <<>>
    /\ count = 0
    /\ log = <<>>
    /\ locked = {}
    /\ sel = NoCall
    /\ conv = NoConv
    /\ step = "none"
    /\ scan_results = <<>>
    /\ detailed_results = <<>>

(* lines 111-112: initialize_imus returns to the caller.                   *)
RdInitDone ==
    /\ pc = "init_select"
    /\ pos > Len(imu_channels)
    /\ imus_initialized' = (Len(imus) > 0)
    /\ pc' = "rd_ready"
    /\ UNCHANGED <<bus_idx, opened, multiplexer, ctrl, pos, addr_idx,
                   devices_found, imus, data, count, log, others>>

(* Faulty variant of RdCall: the membership test left out.                 *)
RdCall_unguarded(ch) ==
    /\ pc \in {"rd_ready", "rd_returned"}
    /\ log' = <<>>
    /\ data' = <<>>
    /\ sel' = [fn |-> "read_imu_data", channel |-> ch, result |-> "pending"]
    /\ pc' = "rd_select"
    /\ UNCHANGED <<bus_idx, opened, multiplexer, ctrl, pos, addr_idx,
                   devices_found, imus, imus_initialized, count, locked, conv, mx>>

(* lines 114-117: the call, and its return when the channel has no slot.   *)
RdCall(ch) ==
    /\ pc \in {"rd_ready", "rd_returned"}
    /\ log' = <<>>
    /\ data' = <<>>
    /\ IF ~HasSlot(ch)
       THEN /\ sel' = [fn |-> "read_imu_data", channel |-> ch, result |-> "None"]
            /\ pc' = "rd_returned"
       ELSE /\ sel' = [fn |-> "read_imu_data", channel |-> ch, result |-> "pending"]
            /\ pc' = "rd_select"
    /\ UNCHANGED <<bus_idx, opened, multiplexer, ctrl, pos, addr_idx,
                   devices_found, imus, imus_initialized, count, locked, conv, mx>>

(* lines 119-121, 145-147.                                                 *)
RdSelect(ack) ==
    /\ pc = "rd_select"
    /\ LET r == _tca_select(sel.channel, ack)
       IN  /\ log' = log \o r.writes
           /\ ctrl' = Latch(ctrl, r.writes)
           /\ IF r.err = "none"
              THEN /\ pc' = "rd_block"
                   /\ sel' = sel
              ELSE /\ pc' = "rd_returned"
                   /\ sel' = [sel EXCEPT !.result = "None"]
    /\ UNCHANGED <<bus_idx, opened, multiplexer, pos, addr_idx, devices_found,
                   imus, imus_initialized, data, count, locked, conv, mx>>

(* lines 124-147.                                                          *)
RdBlock(res) ==
    /\ pc = "rd_block"
    /\ log' = Append(log, BlockRead(ReadAddress(sel.channel), res, sel.channel))
    /\ IF res.ok
       THEN /\ data' = <<[channel |-> sel.channel, imu_data |-> DecodeSample(res.blk)]>>
            /\ sel' = [sel EXCEPT !.result = "sample"]
       ELSE /\ data' = <<>>
            /\ sel' = [sel EXCEPT !.result = "None"]
    /\ pc' = "rd_returned"
    /\ UNCHANGED <<bus_idx, opened, multiplexer, ctrl, pos, addr_idx,
                   devices_found, imus, imus_initialized, count, locked, conv, mx>>

NextRead ==
    \/ \E ack \in BOOLEAN : InitSelect(ack)
    \/ \E ack \in BOOLEAN : InitWake(ack)
    \/ \E res \in WhoOutcomes : InitWho(res)
    \/ RdInitDone
    \/ \E ch \in ReadArgs : RdCall(ch)
    \/ \E ack \in BOOLEAN : RdSelect(ack)
    \/ \E res \in BlockOutcomes : RdBlock(res)

SpecRead == InitRead /\ [][NextRead]_vars

-----------------------------------------------------------------------------
(* Direct calls of the three converters on the big-endian two's-complement *)
(* encoding of every signed 16-bit value (specification SpecConvert).      *)

Int16 == -32768..32767

(* The two bytes a sensor register pair holds for the signed value v.      *)
EncodeBE(v) ==
    LET u == IF v < 0 THEN v + 65536 ELSE v
    IN  <<u \div 256, u % 256>>

InitConvert ==
    /\ InitCommon("convert_calls")
    /\ conv \in {[stage |-> "value", v |-> v, high |-> 0, low |-> 0, out |-> <<>>] :
                    v \in Int16}

EncodeValue ==
    /\ pc = "convert_calls"
    /\ conv.stage = "value"
    /\ conv' = [conv EXCEPT !.stage = "bytes",
                            !.high = EncodeBE(conv.v)[1],
                            !.low = EncodeBE(conv.v)[2]]
    /\ UNCHANGED <<pc, bus_idx, opened, multiplexer, ctrl, pos, addr_idx,
                   devices_found, imus, imus_initialized, data, count, log,
                   locked, sel, mx>>

CallConvert ==
    /\ pc = "convert_calls"
    /\ conv.stage = "bytes"
    /\ conv' = [conv EXCEPT !.stage = "done",
                            !.out = <<_convert_bytes(conv.high, conv.low),
                                      _convert_bytes_to_int(conv.high, conv.low),
                                      _convert(conv.high, conv.low)>>]
    /\ UNCHANGED <<pc, bus_idx, opened, multiplexer, ctrl, pos, addr_idx,
                   devices_found, imus, imus_initialized, data, count, log,
                   locked, sel, mx>>

NextConvert ==
    \/ EncodeValue
    \/ CallConvert

SpecConvert == InitConvert /\ [][NextConvert]_vars

-----------------------------------------------------------------------------
(* Direct calls of the two sample decoders on the 14-byte block that holds *)
(* seven signed values in register order (specification SpecDecode).       *)

SampleVals == {-4096, 0, 256, 4096}

EncodeBlock(raw) ==
    [i \in 1..BlockLen |-> EncodeBE(raw[(i + 1) \div 2])[IF i % 2 = 1 THEN 1 ELSE 2]]

InitDecode ==
    /\ InitCommon("decode_calls")
    /\ conv \in {[stage |-> "values", raw |-> r, blk |-> <<>>, out |-> <<>>] :
                    r \in [1..7 -> SampleVals]}

MakeBlock ==
    /\ pc = "decode_calls"
    /\ conv.stage = "values"
    /\ conv' = [conv EXCEPT !.stage = "block", !.blk = EncodeBlock(conv.raw)]
    /\ UNCHANGED <<pc, bus_idx, opened, multiplexer, ctrl, pos, addr_idx,
                   devices_found, imus, imus_initialized, data, count, log,
                   locked, sel, mx>>

CallDecode ==
    /\ pc = "decode_calls"
    /\ conv.stage = "block"
    /\ conv' = [conv EXCEPT !.stage = "done",
                            !.out = <<DecodeSample(conv.blk),
                                      read_accel_gyro(conv.blk)>>]
    /\ UNCHANGED <<pc, bus_idx, opened, multiplexer, ctrl, pos, addr_idx,
                   devices_found, imus, imus_initialized, data, count, log,
                   locked, sel, mx>>

NextDecode ==
    \/ MakeBlock
    \/ CallDecode

SpecDecode == InitDecode /\ [][NextDecode]_vars

-----------------------------------------------------------------------------
(* Properties of the channel switch.                                       *)

Bit(byte, k)    == (byte \div 2^k) % 2 = 1
SingleHot       == {2^c : c \in 0..7}
SelectWasCalled == sel.err # "nocall"

(* C1: a select of a channel c in 0..7 issues exactly one bus write, to    *)
(* the multiplexer address, of the byte 1 << c; when it is acknowledged,   *)
(* bit c of the control byte is set and no other bit is.                   *)
C1_SelectWritesSingleHot ==
    (SelectWasCalled /\ sel.channel \in 0..7) =>
        /\ Len(log) = Len(sel.prevLog) + 1
        /\ SubSeq(log, 1, Len(sel.prevLog)) = sel.prevLog
        /\ log[Len(log)].op = "write_byte"
        /\ log[Len(log)].addr = MuxAddr
        /\ log[Len(log)].val = 2^sel.channel
        /\ sel.err = (IF sel.ack THEN "none" ELSE "OSError")
        /\ sel.err = "none" => \A k \in 0..7 : Bit(ctrl, k) <=> (k = sel.channel)

C1_Witness ==
    /\ sel.err = "none"
    /\ sel.channel = 5
    /\ sel.prevCtrl = 2^2
    /\ ctrl = 2^5

(* C2: a select of a channel outside 0..7 raises the invalid-channel error *)
(* and issues no bus write: log and control byte are as before the call.   *)
C2_InvalidChannelNoWrite ==
    (SelectWasCalled /\ sel.channel \notin 0..7) =>
        /\ sel.err = "ValueError"
        /\ log = sel.prevLog
        /\ ctrl = sel.prevCtrl

C2_Witness ==
    /\ sel.channel = 8
    /\ sel.err = "ValueError"
    /\ sel.prevCtrl = 2^3
    /\ Len(log) = 1

(* C3: in every state of a session the control byte is 0x00 or single-hot, *)
(* and so is every byte written to the multiplexer: 0xFF is never written. *)
C3_ControlByteSingleHot ==
    /\ ctrl \in {0} \cup SingleHot
    /\ \A i \in 1..Len(log) :
          IsMuxWrite(log[i]) => (log[i].val \in {0} \cup SingleHot /\ log[i].val # 255)

C3_Witness ==
    /\ pc = "read_block"
    /\ count = 1
    /\ ctrl = 2^3
    /\ \E i \in 1..Len(log) : IsMuxWrite(log[i]) /\ log[i].val = 2^2 /\ log[i].ok

-----------------------------------------------------------------------------
(* Properties of the decoding.                                             *)

(* C4: decoding the big-endian two's-complement bytes of a signed 16-bit   *)
(* value v gives back v, for each of the three converters (which therefore *)
(* agree on every byte pair); (0xFF,0xFF) is -1, (0x00,0x01) is 1 and      *)
(* (0x80,0x00) is -32768.                                                  *)
C4_DecodeInvertsEncode ==
    conv.stage = "done" =>
        /\ conv.high \in 0..255 /\ conv.low \in 0..255
        /\ \A i \in 1..3 : conv.out[i] = conv.v
        /\ (conv.high = 255 /\ conv.low = 255) => conv.out[1] = -1
        /\ (conv.high = 0 /\ conv.low = 1) => conv.out[1] = 1
        /\ (conv.high = 128 /\ conv.low = 0) => conv.out[1] = -32768

C4_Witness ==
    /\ conv.stage = "done"
    /\ conv.high = 128 /\ conv.low = 0
    /\ conv.out = <<-32768, -32768, -32768>>

(* The seven raw fields of a sample in register order, and the expression  *)
(* of each kind of field.                                                  *)
RawFields(s) ==
    <<s.accel[1].raw, s.accel[2].raw, s.accel[3].raw, s.temp.raw,
      s.gyro[1].raw, s.gyro[2].raw, s.gyro[3].raw>>
IsAccel(p) == p.lsb = Dec(4096, 0) /\ p.unit = Dec(980665, 5) /\ p.offset = Dec(0, 0)
IsTemp(p)  == p.lsb = Dec(33387, 2) /\ p.unit = Dec(1, 0) /\ p.offset = Dec(21, 0)
IsGyro(p)  == p.lsb = Dec(328, 1) /\ p.unit = Dec(174533, 7) /\ p.offset = Dec(0, 0)

(* C5: the sample decoded from a block is determined by the block: its raw *)
(* fields are the signed values of the byte pairs in the order accel X, Y, *)
(* Z, temperature, gyro X, Y, Z; acceleration is raw / 4096 * 9.80665,     *)
(* temperature raw / 333.87 + 21.0, angular rate raw / 32.8 * 0.0174533;   *)
(* the fixture gives raw accel X 4096 (one g), accel Z -4096, temperature  *)
(* 256 and gyro 0.  Both decoders (i2cdetect.py, NewTest.py) do so.        *)
C5_DecodeSample ==
    conv.stage = "done" =>
        \A k \in 1..2 :
            LET s == conv.out[k]
            IN  /\ RawFields(s) = conv.raw
                /\ \A i \in 1..3 : IsAccel(s.accel[i]) /\ IsGyro(s.gyro[i])
                /\ IsTemp(s.temp)
                /\ conv.blk = Fixture =>
                      /\ s.accel[1].raw = 4096
                      /\ s.accel[1].raw = s.accel[1].lsb.mant
                      /\ s.accel[3].raw = -4096
                      /\ s.temp.raw = 256
                      /\ \A i \in 1..3 : s.gyro[i].raw = 0

C5_Witness ==
    /\ conv.stage = "done"
    /\ conv.blk = Fixture
    /\ RawFields(conv.out[1]) = <<4096, 0, -4096, 256, 0, 0, 0>>
    /\ conv.out[2].success

-----------------------------------------------------------------------------
(* Properties of the discovery (initialize_imus).  During the discovery    *)
(* log holds the operations of one channel: of InitChannel while its       *)
(* candidates are tried, of DoneChannel once the loop has moved on.        *)

InDiscovery     == pc \in {"init_select", "init_wake", "init_who"}
ChannelDone     == pc = "init_select" /\ pos > 1
DoneChannel     == imu_channels[pos - 1]
IsWake(e)       == e.op = "write_byte_data"
IsAccepted(e)   == e.op = "read_byte_data" /\ e.ok /\ e.val \in {WHO_MPU9250, WHO_MPU9255}
IsProbeFault(e) == IsSensorOp(e) /\ ~e.ok
Wakes(l)        == SelectSeq(l, IsWake)
ProbeOrder(l)   == [i \in 1..Len(Wakes(l)) |-> Wakes(l)[i].addr]
IsPrefix(a, b)  == Len(a) <= Len(b) /\ SubSeq(b, 1, Len(a)) = a
SlotRecord(ch)  == imus[SlotOf(ch)]

(* C6: a slot is recorded only for a candidate whose identification value  *)
(* is 0x71 or 0x73; a channel on which every candidate faulted or answered *)
(* another value has no slot.  It holds of initialize_imus (Spec) and      *)
(* fails for test_imu_on_channels (SpecAdapter), which keeps any device    *)
(* that answers and whose data can be read.                                *)
C6_SlotOnlyForKnownId ==
    \A i \in 1..Len(imus) : imus[i].who_am_i \in {WHO_MPU9250, WHO_MPU9255}

(* C9: a candidate whose identification register reads 0x73 is confirmed   *)
(* like one that reads 0x71 in every detection routine: a scan result      *)
(* whose identification value is 0x73 is reported as detected.  It fails   *)
(* for detect_imu_on_channel (SpecMX), which accepts 0x71 only.            *)
C9_SiblingRevisionDetected ==
    step = "scan" =>
        \A i \in 1..Len(scan_results) :
            scan_results[i].info = WHO_MPU9255 => scan_results[i].detected

(* C7 as stated: the candidates are tried 0x69 first, then 0x68, so that a *)
(* slot at 0x68 is recorded only after 0x69 was probed and not accepted,   *)
(* and a slot at 0x69 is recorded without any probe of 0x68.               *)
C7_CanonicalOrder ==
    (ChannelDone /\ HasSlot(DoneChannel)) =>
        /\ SlotRecord(DoneChannel).address = ADDR_HIGH =>
              \A i \in 1..Len(log) : log[i].addr # ADDR_LOW
        /\ SlotRecord(DoneChannel).address = ADDR_LOW =>
              \E i \in 1..Len(log) : IsWake(log[i]) /\ log[i].addr = ADDR_HIGH

(* C7 as amended: the candidates are tried 0x68 first, then 0x69, and the  *)
(* loop stops at the first accepted one: an accepted identification read   *)
(* is the last operation on its channel and gives the slot its address;    *)
(* when 0x68 is accepted the slot is at 0x68 and 0x69 is never probed.     *)
C7_FirstAcceptedInSourceOrder ==
    InDiscovery =>
        /\ IsPrefix(ProbeOrder(log), <<ADDR_LOW, ADDR_HIGH>>)
        /\ \A i \in 1..Len(log) :
              IsAccepted(log[i]) =>
                  /\ i = Len(log)
                  /\ ChannelDone
                  /\ HasSlot(DoneChannel)
                  /\ SlotRecord(DoneChannel).address = log[i].addr
                  /\ log[i].addr = ADDR_LOW =>
                        \A j \in 1..Len(log) : log[j].addr # ADDR_HIGH

C7_Witness ==
    /\ ChannelDone
    /\ HasSlot(DoneChannel)
    /\ SlotRecord(DoneChannel).address = ADDR_LOW
    /\ Len(log) = 3
    /\ IsAccepted(log[3])

(* C8: a fault on a candidate (wake write or identification read) is       *)
(* swallowed and the next candidate is tried; when the first candidate     *)
(* faults and a later one answers 0x71 or 0x73, the channel ends with a    *)
(* slot at the later candidate's address.                                  *)
C8_CandidateFaultTriesNext ==
    InDiscovery =>
        \A i \in 1..Len(log) :
            (IsProbeFault(log[i]) /\ log[i].addr = ProbeOrder(log)[1]) =>
                /\ \/ /\ i < Len(log)
                      /\ IsWake(log[i + 1])
                      /\ log[i + 1].addr \in {ADDR_LOW, ADDR_HIGH} \ {log[i].addr}
                   \/ /\ i = Len(log)
                      /\ pc = "init_wake"
                      /\ addr_idx = 2
                /\ \A j \in 1..Len(log) :
                      (IsAccepted(log[j]) /\ log[j].addr # log[i].addr) =>
                          /\ ChannelDone
                          /\ HasSlot(DoneChannel)
                          /\ SlotRecord(DoneChannel).address = log[j].addr
                          /\ SlotRecord(DoneChannel).who_am_i = log[j].val

C8_Witness ==
    /\ ChannelDone
    /\ HasSlot(DoneChannel)
    /\ Len(log) = 5
    /\ log[3].op = "read_byte_data" /\ ~log[3].ok
    /\ IsAccepted(log[5])
    /\ SlotRecord(DoneChannel).address = log[5].addr
    /\ log[5].addr # log[3].addr

-----------------------------------------------------------------------------
(* Properties of the reading loop.  During a reading log holds the         *)
(* operations of that reading.                                             *)

SlotChannels      == [i \in 1..Len(imus) |-> imus[i].channel]
Selects(l)        == SelectSeq(l, IsMuxWrite)
SelectChannels(l) == [i \in 1..Len(Selects(l)) |-> Selects(l)[i].ch]
IsBlockRead(e)    == e.op = "read_i2c_block_data"
InLoop            == pc \in {"loop", "read_select", "read_block"}
InReading         == pc \in {"read_select", "read_block"} \/ (pc = "loop" /\ count > 0)

(* The slots a reading has got to (InReading: a reading is under way, or   *)
(* is complete and the loop sleeps): whatever faults occurred, the selects *)
(* issued so far are those of the first slots, one each, in order; an      *)
(* acknowledged select is followed by the block read of its slot.          *)
C10_EverySlotAttempted ==
    /\ pc = "read_select" => SelectChannels(log) = SubSeq(SlotChannels, 1, pos - 1)
    /\ pc = "read_block" => SelectChannels(log) = SubSeq(SlotChannels, 1, pos)
    /\ (pc = "loop" /\ count > 0) => SelectChannels(log) = SlotChannels
    /\ InReading =>
          \A i \in 1..Len(log) :
              (IsMuxWrite(log[i]) /\ log[i].ok) =>
                  \/ i = Len(log) /\ pc = "read_block"
                  \/ /\ i < Len(log)
                     /\ IsBlockRead(log[i + 1])
                     /\ log[i + 1].ch = log[i].ch
                     /\ log[i + 1].addr = SlotRecord(log[i].ch).address

(* C10: a fault on one slot (failed select or failed block read) does not  *)
(* end the reading: every later slot is still selected and read; the       *)
(* faulting slot stays in the confirmed set, so the next reading attempts  *)
(* it again.                                                               *)
C10_FaultIsolation ==
    /\ []C10_EverySlotAttempted
    /\ [][InLoop => imus' = imus]_vars

C10_Witness ==
    /\ pc = "loop"
    /\ count = 2
    /\ SlotChannels = <<2, 3, 4>>
    /\ Len(log) = 5
    /\ log[3].ch = 3 /\ IsBlockRead(log[3]) /\ ~log[3].ok
    /\ log[5].ch = 4 /\ IsBlockRead(log[5]) /\ log[5].ok

-----------------------------------------------------------------------------
InScan    == pc \in {"scan_select", "scan_wake", "scan_who"}
IsReset(e)  == IsMuxWrite(e) /\ e.val = 0
IsSelect(e) == IsMuxWrite(e) /\ e.val # 0
CurrentBus == buses_to_try[bus_idx]

(* C11: the constructor succeeds on an opened bus exactly when the reset    *)
(* write of 0x00 is acknowledged.  An acknowledged reset enters the scan,  *)
(* and the scan, whatever the sensors answer, only ends by handing the     *)
(* object to main(); a reset that is not acknowledged leaves the           *)
(* constructor with no object.                                             *)
C11_PresenceByResetOnly ==
    [][/\ pc = "ctor_reset" =>
            /\ IsReset(log'[1])
            /\ log'[1].ok <=> pc' = "scan_select"
            /\ ~log'[1].ok <=> (pc' = "main_for" /\ multiplexer' = 0)
       /\ InScan =>
            /\ multiplexer = 0
            /\ \/ InScan' /\ multiplexer' = 0 /\ bus_idx' = bus_idx
               \/ pc' = "init_select" /\ multiplexer' = CurrentBus]_vars

(* The scan of the last channel met a sensor fault and the constructor is  *)
(* about to return.                                                        *)
C11_Witness ==
    /\ pc = "scan_select"
    /\ pos > NumChannels
    /\ \E i \in 1..Len(log) : IsProbeFault(log[i])

(* C12: a reset write that is not acknowledged ends the work on its bus:   *)
(* main() moves to the next bus and never comes back, and no select or     *)
(* sensor operation is issued while no reset was acknowledged; when no bus *)
(* gives a multiplexer the program ends with no slot and no reading.       *)
C12_PresenceFailureFatal ==
    /\ [][/\ bus_idx' >= bus_idx
          /\ (pc = "ctor_reset" /\ ~log'[1].ok) =>
                 /\ bus_idx' = bus_idx + 1
                 /\ pc' = "main_for"
                 /\ multiplexer' = 0]_vars
    /\ [](pc \in {"main_for", "ctor_reset"} =>
            \A i \in 1..Len(log) : IsReset(log[i]) /\ ~log[i].ok)
    /\ []((pc = "done" /\ multiplexer = 0) =>
            /\ imus = <<>> /\ ~imus_initialized /\ count = 0 /\ data = <<>>
            /\ \A i \in 1..Len(log) : IsReset(log[i]) /\ ~log[i].ok)

(* Every bus was opened and none acknowledged the reset write.             *)
C12_Witness ==
    /\ pc = "done"
    /\ multiplexer = 0
    /\ opened = {1, 7, 8}
    /\ log # <<>>

-----------------------------------------------------------------------------
(* The multiplexer write that precedes entry i of the log most closely.    *)
HasMuxWriteBefore(l, i) == \E j \in 1..(i - 1) : IsMuxWrite(l[j])
LastMuxWriteBefore(l, i) ==
    l[CHOOSE j \in 1..(i - 1) :
          IsMuxWrite(l[j]) /\ \A k \in (j + 1)..(i - 1) : ~IsMuxWrite(l[k])]
BlockReadsOf(l, ch) == {i \in 1..Len(l) : IsBlockRead(l[i]) /\ l[i].ch = ch}

(* C13: a sensor operation for channel c is issued only when the most       *)
(* recent multiplexer write was acknowledged and wrote 1 << c (so that the *)
(* latched control byte is 1 << c); a sample read is one block read of 14  *)
(* bytes from register 0x3B at the address the slot was resolved to.       *)
C13_SensorOpOnSelectedChannel ==
    /\ \A i \in 1..Len(log) :
          IsSensorOp(log[i]) =>
              /\ HasMuxWriteBefore(log, i)
              /\ LastMuxWriteBefore(log, i).ok
              /\ LastMuxWriteBefore(log, i).val = 2^(log[i].ch)
    /\ pc \in {"scan_wake", "scan_who"} => ctrl = 2^ScanChannel
    /\ pc \in {"init_wake", "init_who"} => ctrl = 2^InitChannel
    /\ pc = "read_block" => ctrl = 2^(imus[pos].channel)
    /\ \A i \in 1..Len(log) :
          IsBlockRead(log[i]) =>
              /\ HasSlot(log[i].ch)
              /\ log[i].addr = SlotRecord(log[i].ch).address
              /\ log[i].reg = ACCEL_XOUT_H
              /\ log[i].val = BlockLen
              /\ Cardinality(BlockReadsOf(log, log[i].ch)) = 1

(* A reading has read two slots that were resolved to different addresses. *)
C13_Witness ==
    /\ pc = "read_select"
    /\ Len(log) = 4
    /\ IsBlockRead(log[2]) /\ log[2].ok /\ log[2].addr = ADDR_HIGH
    /\ IsBlockRead(log[4]) /\ log[4].ok /\ log[4].addr = ADDR_LOW

-----------------------------------------------------------------------------
(* C14: a confirmed slot never changes.  Discovery only appends to the     *)
(* confirmed slots, and from the end of discovery on (readings, faults,    *)
(* cancellation, close) the slots stay exactly as they are.                *)
C14_SlotsImmutable ==
    [][/\ InDiscovery => IsPrefix(imus, imus')
       /\ pc \in {"loop", "read_select", "read_block", "finally"} =>
              imus' = imus]_vars

(* A select and a block read have faulted in the second reading and both   *)
(* slots are still confirmed when the loop is left.                        *)
C14_Witness ==
    /\ pc = "finally"
    /\ count = 1
    /\ Len(imus) = 2
    /\ Len(log) = 3
    /\ IsSelect(log[1]) /\ ~log[1].ok
    /\ IsBlockRead(log[3]) /\ ~log[3].ok

-----------------------------------------------------------------------------
InCall == pc \in {"rd_select", "rd_block", "rd_returned"}
Confirmed(ch) == \E i \in 1..Len(imus) : imus[i].channel = ch

(* C15: a channel without a confirmed slot is never selected or read: a    *)
(* call of read_imu_data for it returns None with no bus operation, and    *)
(* every bus operation of a call is for the confirmed channel asked for.   *)
C15_NoSlotNoTraffic ==
    InCall =>
        /\ ~Confirmed(sel.channel) =>
               /\ pc = "rd_returned"
               /\ sel.result = "None"
               /\ log = <<>>
               /\ data = <<>>
        /\ \A i \in 1..Len(log) :
               log[i].ch = sel.channel /\ Confirmed(log[i].ch)

(* Discovery confirmed channel 2 and failed on channel 3; a sample was     *)
(* asked for channel 3.                                                    *)
C15_Witness ==
    /\ pc = "rd_returned"
    /\ Confirmed(2)
    /\ ~Confirmed(3)
    /\ sel.channel = 3
    /\ sel.result = "None"

-----------------------------------------------------------------------------
(* C16: the loop is cancelled only at an iteration boundary, that is while *)
(* it sleeps between two readings or before the select of the next         *)
(* channel, never between a channel's select and its block read.  It fails *)
(* for main(): KeyboardInterrupt is raised wherever the loop is.           *)
C16_CancelAtBoundary ==
    [][pc' = "finally" => pc \in {"loop", "read_select"}]_vars

ReadStep ==
    \/ \E ack \in BOOLEAN : ReadSelect(ack)
    \/ \E res \in BlockOutcomes : ReadBlock(res)
    \/ ReadAllDone

(* C17: no bus fault ends the loop.  A step of the loop that issues a bus  *)
(* operation stays in the loop (the only way out is the cancellation,      *)
(* which issues none); a reading under way can always go on, each of its   *)
(* steps moves to the block read of the slot or on to the next slot, so    *)
(* the reading completes, and another reading can then start.              *)
C17_NoFaultEndsLoop ==
    /\ [][InLoop =>
            /\ \/ InLoop'
               \/ pc' = "finally" /\ log' = log /\ ctrl' = ctrl
            /\ (pc = "read_select" /\ InLoop') =>
                   \/ pc' = "read_block" /\ pos' = pos
                   \/ pc' = "read_select" /\ pos' = pos + 1
                   \/ pc' = "loop" /\ pos > Len(imus) /\ count' = count + 1
            /\ (pc = "read_block" /\ InLoop') =>
                   pc' = "read_select" /\ pos' = pos + 1]_vars
    /\ [](pc \in {"read_select", "read_block"} => ENABLED ReadStep)
    /\ []((pc = "loop" /\ count < MaxCycles) => ENABLED ReadAllBegin)

(* A second reading in which every select faulted has completed.           *)
C17_Witness ==
    /\ pc = "loop"
    /\ count = 2
    /\ Len(imus) = 3
    /\ Len(log) = 3
    /\ \A i \in 1..3 : IsSelect(log[i]) /\ ~log[i].ok

(* C18: every bus handle the program opened is closed when it ends.  It    *)
(* fails for main(): the handle of a bus whose reset write failed is       *)
(* never closed.                                                           *)
C18_AllHandlesClosed ==
    pc = "done" => opened = {}

-----------------------------------------------------------------------------
IsWhoRead(e) == e.op = "read_byte_data"

(* C19: in discovery the identification register of a candidate is read    *)
(* only right after an acknowledged wake write (register 0x6B, value 0x00) *)
(* to the same address.  It holds of scan_all_channels and initialize_imus *)
(* (Spec) and fails for detect_imu_on_channel (SpecMX), which reads the    *)
(* register without a wake write.                                          *)
C19_WakeBeforeIdentify ==
    \A i \in 1..Len(log) :
        IsWhoRead(log[i]) =>
            /\ i > 1
            /\ IsWake(log[i - 1])
            /\ log[i - 1].ok
            /\ log[i - 1].addr = log[i].addr
            /\ log[i - 1].reg = PWR_MGMT_1
            /\ log[i - 1].val = 0
            /\ log[i].reg = WHO_AM_I

AtSelect == pc \in {"scan_select", "init_select", "read_select"}
DataFor(ch) == \E i \in 1..Len(data) : data[i].channel = ch

(* C20: when a select is not acknowledged, no sensor operation is issued   *)
(* for its channel in that pass, the channel gets no slot (discovery) or   *)
(* no sample (reading), and the pass goes on with the next channel.        *)
C20_FailedSelectSkipsChannel ==
    /\ [](\A i \in 1..Len(log) :
            (IsSelect(log[i]) /\ ~log[i].ok) =>
                /\ \A j \in 1..Len(log) :
                       IsSensorOp(log[j]) => log[j].ch # log[i].ch
                /\ (InScan \/ InDiscovery) => ~HasSlot(log[i].ch)
                /\ ~DataFor(log[i].ch))
    /\ [][(AtSelect /\ log' # log /\ log' # <<>> /\ ~log'[Len(log')].ok) =>
             /\ pc' = pc
             /\ pos' = pos + 1
             /\ imus' = imus
             /\ data' = data]_vars

(* Channel 2 was confirmed, the select of channel 3 was not acknowledged   *)
(* and discovery is at channel 4.                                          *)
C20_Witness ==
    /\ pc = "init_select"
    /\ pos = 3
    /\ HasSlot(2)
    /\ Len(log) = 1
    /\ IsSelect(log[1]) /\ ~log[1].ok /\ log[1].ch = 3

-----------------------------------------------------------------------------
Ascending(q) == \A i \in 1..(Len(q) - 1) : q[i] < q[i + 1]
SelectsOf(l, ch) == {i \in 1..Len(l) : IsSelect(l[i]) /\ l[i].ch = ch}

(* C21: a reading visits the confirmed slots in ascending channel order    *)
(* and attempts each once: the slots are kept in ascending channel order,  *)
(* the selects of a reading are for ascending channels, a channel has at   *)
(* most one select and at most one block read in a reading, exactly one    *)
(* select once the reading is complete, and a new reading starts again at  *)
(* the first slot.                                                         *)
C21_OneAttemptPerSlotInOrder ==
    /\ [](Ascending(SlotChannels))
    /\ [](InReading =>
            /\ Ascending(SelectChannels(log))
            /\ \A ch \in 0..(NumChannels - 1) :
                   /\ Cardinality(SelectsOf(log, ch)) <= 1
                   /\ Cardinality(BlockReadsOf(log, ch)) <= Cardinality(SelectsOf(log, ch))
            /\ \A i \in 1..Len(imus) :
                   (pc = "loop" \/ i < pos) =>
                       Cardinality(SelectsOf(log, imus[i].channel)) = 1)
    /\ [][(pc = "loop" /\ pc' = "read_select") => (pos' = 1 /\ log' = <<>>)]_vars

(* A reading of the slots 2 and 4 is complete: the block read of channel 2 *)
(* and the select of channel 4 faulted, and neither was tried again.       *)
C21_Witness ==
    /\ pc = "loop"
    /\ count = 1
    /\ SlotChannels = <<2, 4>>
    /\ Len(log) = 3
    /\ IsSelect(log[1]) /\ log[1].ok /\ log[1].ch = 2
    /\ IsBlockRead(log[2]) /\ ~log[2].ok
    /\ IsSelect(log[3]) /\ ~log[3].ok /\ log[3].ch = 4

-----------------------------------------------------------------------------
AtLock      == pc \in {"ad_scan_lock", "ad_lock", "cr_lock"}
HoldsLock   == pc \in {"ad_scan", "ad_wake", "ad_detect", "ad_read", "cr_read"}
LockChannel ==
    IF pc = "ad_scan" THEN pos - 1
    ELSE IF pc = "cr_read" THEN imus[pos].channel
    ELSE AdChannel

(* C22: a channel lock is held for one channel's transaction only.  At     *)
(* most one lock is held; while a channel is worked on the lock held is    *)
(* that channel's; no lock is held when the next channel's try_lock is     *)
(* made nor during the sleep between two readings, whether the transaction *)
(* succeeded or faulted; a try_lock that fails moves to the next channel   *)
(* with no bus operation, no result and no lock taken or given back.       *)
C22_LockPerTransaction ==
    /\ [](Cardinality(locked) <= 1)
    /\ [](HoldsLock => locked = {LockChannel})
    /\ []((AtLock \/ pc = "cr_top") => locked = {})
    /\ [][(AtLock /\ pc' = pc /\ pos' = pos + 1) =>
             /\ locked' = locked
             /\ log' = log \/ log' = <<>>
             /\ imus' = imus
             /\ devices_found' = devices_found]_vars
    /\ [][(HoldsLock /\ ~HoldsLock' /\ pc' # "ad_done") =>
             (AtLock' /\ pos' = pos + 1 /\ locked' = {})]_vars

(* In one reading of two IMUs the lock of the first channel was refused    *)
(* and the read of the second faulted; the loop sleeps with no lock held.  *)
C22_Witness ==
    /\ pc = "cr_top"
    /\ count = 1
    /\ Len(imus) = 2
    /\ Len(log) = 1
    /\ IsBlockRead(log[1]) /\ ~log[1].ok /\ log[1].ch = imus[2].channel
    /\ locked = {}

-----------------------------------------------------------------------------
ReadOk(l, ch) == \E i \in 1..Len(l) : IsBlockRead(l[i]) /\ l[i].ch = ch /\ l[i].ok
SelectOk(l, ch) == \E i \in 1..Len(l) : IsSelect(l[i]) /\ l[i].ch = ch /\ l[i].ok
DataChannels == [i \in 1..Len(data) |-> data[i].channel]

(* C23: the result of a reading holds a sample for channel c exactly when  *)
(* c is a confirmed slot whose select and block read both succeeded in     *)
(* this reading; each such channel has one sample, which is a decoded      *)
(* block, and a channel that faulted is absent.                            *)
C23_ResultHoldsSuccessfulReads ==
    pc \in {"read_select", "read_block", "loop"} =>
        /\ \A ch \in 0..(NumChannels - 1) :
               DataFor(ch) <=>
                   /\ InReading
                   /\ HasSlot(ch)
                   /\ SelectOk(log, ch)
                   /\ ReadOk(log, ch)
        /\ Ascending(DataChannels)
        /\ \A i \in 1..Len(data) :
               data[i].imu_data \in {DecodeSample(b) : b \in Blocks}

(* A reading of three slots is complete: the select of channel 2 and the   *)
(* block read of channel 4 faulted, and the result holds channel 3 only.   *)
C23_Witness ==
    /\ pc = "loop"
    /\ count = 1
    /\ SlotChannels = <<2, 3, 4>>
    /\ DataChannels = <<3>>
    /\ ~SelectOk(log, 2)
    /\ SelectOk(log, 4) /\ ~ReadOk(log, 4)

AfterInit ==
    \/ pc \in {"loop", "read_select", "read_block", "finally"}
    \/ pc = "done" /\ multiplexer # 0

(* C24: once initialize_imus has returned, imus_initialized is true        *)
(* exactly when a slot is confirmed; the confirmed channels are among 2, 3 *)
(* and 4; the loop is entered only with a slot; and with no slot the       *)
(* program ends with its bus closed, no reading and no sample read.        *)
C24_LoopOnlyWithSlot ==
    /\ \A i \in 1..Len(imus) :
          \E k \in 1..Len(imu_channels) : imus[i].channel = imu_channels[k]
    /\ AfterInit => (imus_initialized <=> Len(imus) > 0)
    /\ pc \in {"loop", "read_select", "read_block", "finally"} =>
          imus_initialized /\ Len(imus) > 0
    /\ (pc = "done" /\ multiplexer # 0 /\ imus = <<>>) =>
          /\ count = 0
          /\ data = <<>>
          /\ multiplexer \notin opened
          /\ \A i \in 1..Len(log) : ~IsBlockRead(log[i])

(* A device answered on channel 4 with an unknown identification value, no *)
(* slot was confirmed and the program has ended.                           *)
C24_Witness ==
    /\ pc = "done"
    /\ multiplexer # 0
    /\ imus = <<>>
    /\ ~imus_initialized
    /\ \E i \in 1..Len(log) : IsWhoRead(log[i]) /\ log[i].ok /\ log[i].val = 0

=============================================================================
